---- MODULE Spec2Model ----
\* Model of NormalisedFaceCropper (src/normalised_face_cropper.py).
\*
\* Numbers.  The Python code computes in float64 and rounds with np.rint.  The
\* model computes the same expressions exactly: products and sums of the
\* normalised inputs are rationals [n, d]; the entries of a rotation matrix are
\* numbers r + s / sqrt(L2) with r, s rational.  np.rint is round-half-to-even.
\*
\* Images.  An image is the list of the row numbers and the list of the column
\* numbers of the input image it shows, plus the affine warp applied to it.
EXTENDS Integers, Sequences, FiniteSets, TLC

VARIABLES pc, image, detected_faces, face_idx, normalised_face_images,
          result, landmark_log, call

vars == <<pc, image, detected_faces, face_idx, normalised_face_images,
          result, landmark_log, call>>

-----------------------------------------------------------------------------
\* Bounds of the model.

\* Largest height and width of an enumerated image.
MaxDim == 3
\* Crop bounds and pixel coordinates are enumerated in -MaxOut .. MaxDim + MaxOut.
MaxOut == 2
\* Largest number of faces the localizer reports.
MaxFaces == 3
\* Normalised coordinates are enumerated as k / CoordDen, k \in 0 .. CoordDen.
CoordDen == 2

-----------------------------------------------------------------------------
\* Exact arithmetic.

Abs(x) == IF x < 0 THEN -x ELSE x

Max(a, b) == IF a >= b THEN a ELSE b

Min(a, b) == IF a <= b THEN a ELSE b

RECURSIVE GCD(_, _)
GCD(a, b) == IF b = 0 THEN a ELSE GCD(b, a % b)

\* The rational n / d in lowest terms with a positive denominator.
Q(n, d) ==
    LET s == IF d < 0 THEN -1 ELSE 1
        g == GCD(Abs(n), Abs(d))
    IN  [n |-> (s * n) \div g, d |-> (s * d) \div g]

QInt(k) == [n |-> k, d |-> 1]

QAdd(a, b) == Q(a.n * b.d + b.n * a.d, a.d * b.d)

QNeg(a) == [n |-> -a.n, d |-> a.d]

QSub(a, b) == QAdd(a, QNeg(b))

QMul(a, b) == Q(a.n * b.n, a.d * b.d)

QDivInt(a, k) == Q(a.n, a.d * k)

\* np.rint of a rational: the nearest integer, a tie going to the even one.
Rint(a) ==
    LET f == (2 * a.n + a.d) \div (2 * a.d)
        tie == (2 * a.n + a.d) % (2 * a.d) = 0
    IN  IF tie /\ f % 2 # 0 THEN f - 1 ELSE f

\* np.sum over a list of rationals (summed pairwise, as numpy does).
RECURSIVE QSumRange(_, _, _)
QSumRange(s, lo, hi) ==
    IF lo > hi THEN QInt(0)
    ELSE IF lo = hi THEN s[lo]
    ELSE QAdd(QSumRange(s, lo, (lo + hi) \div 2),
              QSumRange(s, (lo + hi) \div 2 + 1, hi))

QSum(s) == QSumRange(s, 1, Len(s))

-----------------------------------------------------------------------------
\* Images and Python slicing.

Range(lo, hi) == [k \in 1 .. Max(hi - lo + 1, 0) |-> lo + k - 1]

NoWarp == [kind |-> "none"]

\* The input image of the given shape: rows 0 .. height-1, columns 0 .. width-1.
NewImage(height, width) ==
    [rows |-> Range(0, height - 1), cols |-> Range(0, width - 1), warp |-> NoWarp]

\* image.shape[0] and image.shape[1]
Height(img) == Len(img.rows)

Width(img) == Len(img.cols)

\* Python's s[a:b] on a sequence: a negative index counts from the end, and
\* both indices are then clipped into 0 .. len(s).
PyIndex(n, k) == IF k < 0 THEN Max(k + n, 0) ELSE Min(k, n)

PySlice(s, a, b) == SubSeq(s, PyIndex(Len(s), a) + 1, PyIndex(Len(s), b))

\* image[a:b, c:d]
Slice2D(img, a, b, c, d) ==
    [img EXCEPT !.rows = PySlice(img.rows, a, b), !.cols = PySlice(img.cols, c, d)]

-----------------------------------------------------------------------------
\* safe_crop_image and get_face_image.

safe_crop_image_no_lower_clamp(img, top, bottom, left, right) ==
    LET t == IF top >= Height(img) THEN Height(img) - 1 ELSE top
        b == IF bottom >= Height(img) THEN Height(img) - 1 ELSE bottom
        l == IF left >= Width(img) THEN Width(img) - 1 ELSE left
        r == IF right >= Width(img) THEN Width(img) - 1 ELSE right
    IN  Slice2D(img, t, b, l, r + 1)

safe_crop_image(img, top, bottom, left, right) ==
    LET t == IF top < 0 THEN 0
             ELSE IF top >= Height(img) THEN Height(img) - 1 ELSE top
        b == IF bottom < 0 THEN 0
             ELSE IF bottom >= Height(img) THEN Height(img) - 1 ELSE bottom
        l == IF left < 0 THEN 0
             ELSE IF left >= Width(img) THEN Width(img) - 1 ELSE left
        r == IF right < 0 THEN 0
             ELSE IF right >= Width(img) THEN Width(img) - 1 ELSE right
    IN  Slice2D(img, t, b, l, r + 1)

\* face_box is [xmin, ymin, width, height], each a rational.
get_face_image(img, face_box) ==
    LET image_height == Height(img)
        image_width == Width(img)
        face_bounds ==
            << << Rint(QMul(face_box.xmin, QInt(image_width))),
                  Rint(QMul(face_box.ymin, QInt(image_height))) >>,
               << Rint(QMul(QAdd(face_box.xmin, face_box.width), QInt(image_width))),
                  Rint(QMul(QAdd(face_box.ymin, face_box.height), QInt(image_height))) >> >>
    IN  safe_crop_image(img, face_bounds[1][2], face_bounds[2][2],
                        face_bounds[1][1], face_bounds[2][1])

-----------------------------------------------------------------------------
\* Eye geometry.  A landmark is [x, y] with rational fields; a pixel point is
\* the pair <<x, y>> of integers.

XsOf(landmarks) == [k \in 1 .. Len(landmarks) |-> landmarks[k].x]

YsOf(landmarks) == [k \in 1 .. Len(landmarks) |-> landmarks[k].y]

\* One eye's centre (lines 87-89 for the left eye, 91-93 for the right eye).
eye_centre(eye_landmarks, image_size) ==
    << Rint(QDivInt(QMul(QSum(XsOf(eye_landmarks)), QInt(image_size[1])),
                    Len(eye_landmarks))),
       Rint(QSub(QInt(image_size[2] - 1),
                 QDivInt(QMul(QSum(YsOf(eye_landmarks)), QInt(image_size[2])),
                         Len(eye_landmarks)))) >>

\* image_size is <<width, height>>.
get_left_and_right_eye_centres(left_eye_landmarks, right_eye_landmarks, image_size) ==
    << eye_centre(left_eye_landmarks, image_size),
       eye_centre(right_eye_landmarks, image_size) >>

get_eyes_midpoint_mean_of_heights(left_eye_centre, right_eye_centre, image_height) ==
    << Rint(Q(left_eye_centre[1] + right_eye_centre[1], 2)),
       Rint(Q(left_eye_centre[2] + right_eye_centre[2], 2)) >>

get_eyes_midpoint(left_eye_centre, right_eye_centre, image_height) ==
    << Rint(Q(left_eye_centre[1] + right_eye_centre[1], 2)),
       Rint(QSub(QInt(image_height - 1),
                 Q(left_eye_centre[2] + right_eye_centre[2], 2))) >>

\* An angle in degrees is deg + degrees(arctan(gradient)); the first four
\* returns of get_face_roll_angle have gradient 0.  A division by zero makes
\* the gradient, and with it the angle, undefined.
Angle(deg, gradient) == [kind |-> "angle", deg |-> deg, gradient |-> gradient]

UndefinedAngle == [kind |-> "zero_division"]

\* n / d of two integers.
Divide(n, d) == IF d = 0 THEN UndefinedAngle ELSE Q(n, d)

ArctanDegrees(deg, gradient) ==
    IF gradient = UndefinedAngle THEN UndefinedAngle ELSE Angle(deg, gradient)

get_face_roll_angle_no_vertical_branch(left_eye_centre, right_eye_centre) ==
    IF right_eye_centre[2] = left_eye_centre[2]
    THEN IF right_eye_centre[1] >= left_eye_centre[1]
         THEN Angle(0, QInt(0))
         ELSE Angle(180, QInt(0))
    ELSE LET gradient == Divide(right_eye_centre[2] - left_eye_centre[2],
                                right_eye_centre[1] - left_eye_centre[1])
         IN  IF right_eye_centre[1] > left_eye_centre[1]
             THEN ArctanDegrees(0, gradient)
             ELSE ArctanDegrees(180, gradient)

get_face_roll_angle(left_eye_centre, right_eye_centre) ==
    IF right_eye_centre[2] = left_eye_centre[2]
    THEN IF right_eye_centre[1] >= left_eye_centre[1]
         THEN Angle(0, QInt(0))
         ELSE Angle(180, QInt(0))
    ELSE IF right_eye_centre[1] = left_eye_centre[1]
    THEN IF right_eye_centre[2] > left_eye_centre[2]
         THEN Angle(90, QInt(0))
         ELSE Angle(270, QInt(0))
    ELSE LET gradient == Divide(right_eye_centre[2] - left_eye_centre[2],
                                right_eye_centre[1] - left_eye_centre[1])
         IN  IF right_eye_centre[1] > left_eye_centre[1]
             THEN ArctanDegrees(0, gradient)
             ELSE ArctanDegrees(180, gradient)

\* -roll_angle
Negate(angle) == Angle(-angle.deg, QNeg(angle.gradient))

-----------------------------------------------------------------------------
\* Rotation.  A number of a rotation matrix is r + s / sqrt(L2), written
\* [r, s], with L2 kept by the matrix; L2 = 1 when the square root is an
\* integer, so that equal matrices are equal records.

S(r, s) == [r |-> r, s |-> s]

SAdd(a, b) == S(QAdd(a.r, b.r), QAdd(a.s, b.s))

SSub(a, b) == S(QSub(a.r, b.r), QSub(a.s, b.s))

SNeg(a) == S(QNeg(a.r), QNeg(a.s))

SMulQ(a, q) == S(QMul(a.r, q), QMul(a.s, q))

Isqrt(n) == CHOOSE k \in 0 .. n : k * k <= n /\ (k + 1) * (k + 1) > n

\* [r, s] over sqrt(L2) rewritten over sqrt(1) when L2 is a perfect square.
Fold(L2, a) ==
    IF Isqrt(L2) * Isqrt(L2) = L2
    THEN S(QAdd(a.r, QDivInt(a.s, Isqrt(L2))), QInt(0))
    ELSE a

\* a.r + a.s / sqrt(L2) < q
SLess(L2, a, q) ==
    LET t == QSub(q, a.r)
        u == a.s.n * t.d
        v == t.n * a.s.d
    IN  \/ u < 0 /\ v >= 0
        \/ u >= 0 /\ v > 0 /\ u * u < v * v * L2
        \/ u < 0 /\ v < 0 /\ u * u > v * v * L2

SGreater(L2, a, q) == SLess(L2, SNeg(a), QNeg(q))

\* np.rint of a.r + a.s / sqrt(L2).
SRint(L2, a) ==
    LET mid == a.r.n \div a.r.d
        span == Abs(a.s.n) \div a.s.d + 2
        k == CHOOSE j \in (mid - span) .. (mid + span) :
                 /\ ~SLess(L2, a, Q(2 * j - 1, 2))
                 /\ SLess(L2, a, Q(2 * j + 1, 2))
        tie == ~SGreater(L2, a, Q(2 * k - 1, 2))
    IN  IF tie /\ k % 2 # 0 THEN k - 1 ELSE k

\* cos and sin of an angle as c / sqrt(L2) and s / sqrt(L2), c and s integers.
CosSin(angle) ==
    LET n == angle.gradient.n
        d == angle.gradient.d
        q == (angle.deg \div 90) % 4
    IN  [L2 |-> n * n + d * d,
         c |-> CASE q = 0 -> d [] q = 1 -> -n [] q = 2 -> -d [] OTHER -> n,
         s |-> CASE q = 0 -> n [] q = 1 -> d [] q = 2 -> -n [] OTHER -> -d]

SOne == S(QInt(1), QInt(0))

\* cv2.getRotationMatrix2D(center, angle, scale): with alpha = scale * cos(angle)
\* and beta = scale * sin(angle),
\*   [  alpha  beta  (1 - alpha) * center.x - beta * center.y ]
\*   [ -beta   alpha  beta * center.x + (1 - alpha) * center.y ]
getRotationMatrix2D(center, angle, scale) ==
    LET cs == CosSin(angle)
        alpha == S(QInt(0), QInt(scale * cs.c))
        beta == S(QInt(0), QInt(scale * cs.s))
        cx == QInt(center[1])
        cy == QInt(center[2])
        m == << << alpha, beta,
                   SSub(SMulQ(SSub(SOne, alpha), cx), SMulQ(beta, cy)) >>,
                << SNeg(beta), alpha,
                   SAdd(SMulQ(beta, cx), SMulQ(SSub(SOne, alpha), cy)) >> >>
    IN  [L2 |-> IF Isqrt(cs.L2) * Isqrt(cs.L2) = cs.L2 THEN 1 ELSE cs.L2,
         m |-> [i \in 1 .. 2 |-> [j \in 1 .. 3 |-> Fold(cs.L2, m[i][j])]]]

IdentityMatrix ==
    [L2 |-> 1,
     m |-> << << SOne, S(QInt(0), QInt(0)), S(QInt(0), QInt(0)) >>,
              << S(QInt(0), QInt(0)), SOne, S(QInt(0), QInt(0)) >> >>]

\* cv2.warpAffine(src, M, dsize) with dsize the size of src: pixel (x, y) of the
\* result shows src at M^-1 (x, y).  Under the identity matrix every pixel shows
\* itself; otherwise the result is a canvas of the same size showing src warped.
warpAffine(src, M, dsize) ==
    IF M = IdentityMatrix /\ dsize = <<Width(src), Height(src)>>
    THEN src
    ELSE [rows |-> Range(0, dsize[2] - 1), cols |-> Range(0, dsize[1] - 1),
          warp |-> [kind |-> "affine", M |-> M, src |-> src]]

ShapeError == [kind |-> "error"]

NdArray(rows) == [kind |-> "ndarray", rows |-> rows]

\* The homogeneous row of line 159.
Ones == <<1, 1, 1, 1>>

\* Row i of rotation_matrix times column k of the stacked 3 x n array.
MatmulEntry(rotation_matrix, i, landmark, image_size) ==
    SAdd(SAdd(SMulQ(rotation_matrix.m[i][1], QMul(landmark.x, QInt(image_size[1]))),
              SMulQ(rotation_matrix.m[i][2], QMul(landmark.y, QInt(image_size[2])))),
         rotation_matrix.m[i][3])

rotate_landmarks_height_for_x(landmarks, rotation_matrix, image_size) ==
    IF Len(landmarks) # Len(Ones)
    THEN ShapeError
    ELSE NdArray([i \in 1 .. 2 |-> [k \in 1 .. Len(landmarks) |->
             SRint(rotation_matrix.L2,
                   MatmulEntry(rotation_matrix, i, landmarks[k],
                               <<image_size[2], image_size[2]>>))]])

\* The three rows handed to np.array have len(landmarks), len(landmarks) and 4
\* entries: they form a 3 x n array only when n = 4, and np.matmul fails otherwise.
rotate_landmarks(landmarks, rotation_matrix, image_size) ==
    IF Len(landmarks) # Len(Ones)
    THEN ShapeError
    ELSE NdArray([i \in 1 .. 2 |-> [k \in 1 .. Len(landmarks) |->
             SRint(rotation_matrix.L2,
                   MatmulEntry(rotation_matrix, i, landmarks[k], image_size))]])

\* get_normalised_face_image with its intermediate values: the rotation matrix,
\* the rotated landmarks and the four bounds handed to safe_crop_image.
normalise_steps_swapped_bounds(face_image, edge_landmarks, pivot, roll) ==
    LET rotation_matrix == getRotationMatrix2D(pivot, Negate(roll), 1)
        rotated_landmarks ==
            rotate_landmarks(edge_landmarks, rotation_matrix,
                             <<Width(face_image), Height(face_image)>>)
        rotated_face_image ==
            warpAffine(face_image, rotation_matrix,
                       <<Width(face_image), Height(face_image)>>)
        rl == rotated_landmarks.rows
    IN  IF rotated_landmarks = ShapeError
        THEN [rotation_matrix |-> rotation_matrix, ret |-> ShapeError]
        ELSE [rotation_matrix |-> rotation_matrix,
              rotated_landmarks |-> rotated_landmarks,
              top |-> rl[2][2], bottom |-> rl[2][4],
              left |-> rl[1][1], right |-> rl[1][3],
              ret |-> safe_crop_image(rotated_face_image, rl[2][2], rl[2][4],
                                      rl[1][1], rl[1][3])]

normalise_steps(face_image, edge_landmarks, pivot, roll) ==
    LET rotation_matrix == getRotationMatrix2D(pivot, Negate(roll), 1)
        rotated_landmarks ==
            rotate_landmarks(edge_landmarks, rotation_matrix,
                             <<Width(face_image), Height(face_image)>>)
        rotated_face_image ==
            warpAffine(face_image, rotation_matrix,
                       <<Width(face_image), Height(face_image)>>)
        rl == rotated_landmarks.rows
    IN  IF rotated_landmarks = ShapeError
        THEN [rotation_matrix |-> rotation_matrix, ret |-> ShapeError]
        ELSE [rotation_matrix |-> rotation_matrix,
              rotated_landmarks |-> rotated_landmarks,
              top |-> rl[2][4], bottom |-> rl[2][2],
              left |-> rl[1][1], right |-> rl[1][3],
              ret |-> safe_crop_image(rotated_face_image, rl[2][4], rl[2][2],
                                      rl[1][1], rl[1][3])]

get_normalised_face_image(face_image, face_edge_landmarks, eyes_midpoint, roll_angle) ==
    normalise_steps(face_image, face_edge_landmarks, eyes_midpoint, roll_angle).ret

-----------------------------------------------------------------------------
\* crop_faces_from_image.

left_eye_landmark_indices ==
    <<33, 7, 163, 144, 145, 153, 154, 155, 133, 173, 157, 158, 159, 160, 161, 246>>

right_eye_landmark_indices ==
    <<362, 382, 381, 380, 374, 373, 390, 249, 263, 466, 388, 387, 386, 385, 384, 398>>

face_edge_landmark_indices == <<234, 152, 454, 10>>

\* [face.landmark[landmark] for landmark in indices]
Pick(landmark, indices) == [k \in 1 .. Len(indices) |-> landmark[indices[k]]]

\* Python's None, and a list.
NoneValue == [kind |-> "None"]

List(items) == [kind |-> "list", items |-> items]

\* Lines 39-50: the normalised image of one face whose landmarks were found.
\* detected_landmarks is the list of meshes the locator returned; mesh 0 is used.
normalise_face(face_image, detected_landmarks) ==
    LET face_height == Height(face_image)
        face_width == Width(face_image)
        face == detected_landmarks.items[1]
        centres == get_left_and_right_eye_centres(
                       Pick(face.landmark, left_eye_landmark_indices),
                       Pick(face.landmark, right_eye_landmark_indices),
                       <<face_width, face_height>>)
        left_eye_centre == centres[1]
        right_eye_centre == centres[2]
        eyes_midpoint == get_eyes_midpoint(left_eye_centre, right_eye_centre, face_height)
        roll_angle == get_face_roll_angle(left_eye_centre, right_eye_centre)
    IN  get_normalised_face_image(face_image,
                                  Pick(face.landmark, face_edge_landmark_indices),
                                  eyes_midpoint, roll_angle)

-----------------------------------------------------------------------------
\* Inputs.

Dims == 1 .. MaxDim

Coords == (0 - MaxOut) .. (MaxDim + MaxOut)

Grid == {Q(k, CoordDen) : k \in 0 .. CoordDen}

GridPoints == {[x |-> a, y |-> b] : a, b \in Grid}

Half == Q(1, 2)

\* What the face localizer can answer for the faces of an image: bounding boxes
\* that span the image or its left half.
FaceBoxes ==
    {[xmin |-> QInt(0), ymin |-> QInt(0), width |-> QInt(1), height |-> QInt(1)],
     [xmin |-> QInt(0), ymin |-> QInt(0), width |-> Half, height |-> QInt(1)]}

RECURSIVE SeqsUpTo(_, _)
SeqsUpTo(S_, n) ==
    IF n = 0 THEN {<<>>}
    ELSE LET shorter == SeqsUpTo(S_, n - 1)
         IN  shorter \cup {Append(q, e) : q \in {t \in shorter : Len(t) = n - 1}, e \in S_}

Detections == {NoneValue} \cup {List(q) : q \in SeqsUpTo(FaceBoxes, MaxFaces)}

InSeq(e, q) == \E k \in 1 .. Len(q) : q[k] = e

\* A face mesh with every left-eye landmark at le, every right-eye landmark at
\* re and the four edge landmarks at the middle of the left, lower, right and
\* upper border of the face image.
Mesh(le, re) ==
    [landmark |->
        [i \in {left_eye_landmark_indices[k] : k \in 1 .. Len(left_eye_landmark_indices)}
               \cup {right_eye_landmark_indices[k] : k \in 1 .. Len(right_eye_landmark_indices)}
               \cup {face_edge_landmark_indices[k] : k \in 1 .. Len(face_edge_landmark_indices)}
         |-> IF InSeq(i, left_eye_landmark_indices) THEN le
             ELSE IF InSeq(i, right_eye_landmark_indices) THEN re
             ELSE IF i = face_edge_landmark_indices[1] THEN [x |-> QInt(0), y |-> Half]
             ELSE IF i = face_edge_landmark_indices[2] THEN [x |-> Half, y |-> QInt(1)]
             ELSE IF i = face_edge_landmark_indices[3] THEN [x |-> QInt(1), y |-> Half]
             ELSE [x |-> Half, y |-> QInt(0)]]]

\* Level eyes, and a right eye lower in the image than the left eye.
Meshes ==
    {Mesh([x |-> QInt(0), y |-> Half], [x |-> QInt(1), y |-> Half]),
     Mesh([x |-> QInt(0), y |-> QInt(0)], [x |-> QInt(1), y |-> QInt(1)])}

\* What the landmark locator can answer for a face image (multi_face_landmarks):
\* None, or a list holding one mesh (max_num_faces = 1).  No mesh is found in an
\* image without pixels.
LandmarkOutcomes(face_image) ==
    IF Height(face_image) = 0 \/ Width(face_image) = 0
    THEN {NoneValue}
    ELSE {NoneValue} \cup {List(<<m>>) : m \in Meshes}

-----------------------------------------------------------------------------
\* crop_faces_from_image as a process: pc is "start" before line 29, "loop" at
\* the head of the for loop of line 34, "done" after the return.

NoCall == [op |-> "none"]

Init ==
    /\ pc = "start"
    /\ image \in {NewImage(1, MaxDim), NewImage(MaxDim, MaxDim)}
    /\ detected_faces = NoneValue
    /\ face_idx = 0
    /\ normalised_face_images = <<>>
    /\ result = NoneValue
    /\ landmark_log = <<>>
    /\ call = NoCall

Detect_truthy ==
    /\ pc = "start"
    /\ \E d \in Detections :
        /\ detected_faces' = d
        /\ IF d # NoneValue /\ d # List(<<>>)
           THEN pc' = "loop" /\ face_idx' = 1 /\ result' = result
           ELSE pc' = "done" /\ face_idx' = face_idx /\ result' = NoneValue
    /\ normalised_face_images' = <<>>
    /\ UNCHANGED <<image, landmark_log, call>>

\* Lines 29-32: the localizer answers; a None answer falls through to the end of
\* the function, which returns None.
Detect ==
    /\ pc = "start"
    /\ \E d \in Detections :
        /\ detected_faces' = d
        /\ IF d # NoneValue
           THEN pc' = "loop" /\ face_idx' = 1 /\ result' = result
           ELSE pc' = "done" /\ face_idx' = face_idx /\ result' = NoneValue
    /\ normalised_face_images' = <<>>
    /\ UNCHANGED <<image, landmark_log, call>>

ProcessFace_stop_at_none ==
    /\ pc = "loop"
    /\ face_idx <= Len(detected_faces.items)
    /\ LET face_image == get_face_image(image, detected_faces.items[face_idx])
       IN  \E detected_landmarks \in LandmarkOutcomes(face_image) :
            /\ landmark_log' = Append(landmark_log, detected_landmarks)
            /\ IF detected_landmarks # NoneValue
               THEN /\ normalised_face_images' =
                         Append(normalised_face_images,
                                normalise_face(face_image, detected_landmarks))
                    /\ face_idx' = face_idx + 1
               ELSE /\ normalised_face_images' = normalised_face_images
                    /\ face_idx' = Len(detected_faces.items) + 1
    /\ UNCHANGED <<pc, image, detected_faces, result, call>>

\* Lines 34-50: one iteration of the loop, for face number face_idx.
ProcessFace ==
    /\ pc = "loop"
    /\ face_idx <= Len(detected_faces.items)
    /\ LET face_image == get_face_image(image, detected_faces.items[face_idx])
       IN  \E detected_landmarks \in LandmarkOutcomes(face_image) :
            /\ landmark_log' = Append(landmark_log, detected_landmarks)
            /\ IF detected_landmarks # NoneValue
               THEN normalised_face_images' =
                        Append(normalised_face_images,
                               normalise_face(face_image, detected_landmarks))
               ELSE normalised_face_images' = normalised_face_images
    /\ face_idx' = face_idx + 1
    /\ UNCHANGED <<pc, image, detected_faces, result, call>>

\* Line 52.
Return ==
    /\ pc = "loop"
    /\ face_idx > Len(detected_faces.items)
    /\ result' = List(normalised_face_images)
    /\ pc' = "done"
    /\ UNCHANGED <<image, detected_faces, face_idx, normalised_face_images,
                   landmark_log, call>>

Next == Detect \/ ProcessFace \/ Return

Spec == Init /\ [][Next]_vars

-----------------------------------------------------------------------------
\* Calls of the single methods: pc is "call" before the call and "returned"
\* after it; call holds the arguments and the return value.

InitCalls ==
    /\ pc = "call"
    /\ image = NewImage(1, 1)
    /\ detected_faces = NoneValue
    /\ face_idx = 0
    /\ normalised_face_images = <<>>
    /\ result = NoneValue
    /\ landmark_log = <<>>
    /\ call = NoCall

Images == {NewImage(h, w) : h, w \in Dims}

BoundingBoxes ==
    {[xmin |-> a, ymin |-> b, width |-> c, height |-> d] : a, b, c, d \in Grid}

CallSafeCropImage ==
    /\ pc = "call"
    /\ pc' = "returned"
    /\ \E img \in Images : \E top, bottom, left, right \in Coords :
        call' = [op |-> "safe_crop_image", image |-> img, top |-> top,
                 bottom |-> bottom, left |-> left, right |-> right,
                 ret |-> safe_crop_image(img, top, bottom, left, right)]
    /\ UNCHANGED <<image, detected_faces, face_idx, normalised_face_images,
                   result, landmark_log>>

CallGetFaceImage ==
    /\ pc = "call"
    /\ pc' = "returned"
    /\ \E img \in Images : \E face_box \in BoundingBoxes :
        call' = [op |-> "get_face_image", image |-> img, face_box |-> face_box,
                 ret |-> get_face_image(img, face_box)]
    /\ UNCHANGED <<image, detected_faces, face_idx, normalised_face_images,
                   result, landmark_log>>

NextCrop == CallSafeCropImage \/ CallGetFaceImage

SpecCrop == InitCalls /\ [][NextCrop]_vars

\* The landmarks of one eye: as many as the mesh has for an eye, alternately at
\* centre + spread and centre - spread, so that their mean is centre.
EyeLandmarks(centre, spread) ==
    [k \in 1 .. Len(left_eye_landmark_indices) |->
        IF k % 2 = 1
        THEN [x |-> QAdd(centre.x, spread), y |-> QSub(centre.y, spread)]
        ELSE [x |-> QSub(centre.x, spread), y |-> QAdd(centre.y, spread)]]

\* The grid, and the eye positions (0.3, 0.5) and (0.7, 0.5).
EyePositions ==
    GridPoints \cup {[x |-> Q(3, 10), y |-> Half], [x |-> Q(7, 10), y |-> Half]}

EyeLandmarkLists == {EyeLandmarks(p, e) : p \in EyePositions, e \in {QInt(0), Q(1, 4)}}

TightEyeLandmarkLists == {EyeLandmarks(p, QInt(0)) : p \in EyePositions}

\* <<width, height>>
ImageSizes == {<<w, h>> : w \in {2, MaxDim}, h \in Dims} \cup {<<100, 100>>}

PixelPoints == {<<x, y>> : x, y \in Coords}

\* Lines 42-48: the eye centres of a mesh, their midpoint and the roll angle.
CallEyeGeometry ==
    /\ pc = "call"
    /\ pc' = "returned"
    /\ \E left_eye_landmarks \in EyeLandmarkLists :
       \E right_eye_landmarks \in TightEyeLandmarkLists :
       \E image_size \in ImageSizes :
        LET centres == get_left_and_right_eye_centres(
                           left_eye_landmarks, right_eye_landmarks, image_size)
        IN  call' = [op |-> "eye_geometry",
                     left_eye_landmarks |-> left_eye_landmarks,
                     right_eye_landmarks |-> right_eye_landmarks,
                     image_size |-> image_size,
                     left_eye_centre |-> centres[1],
                     right_eye_centre |-> centres[2],
                     eyes_midpoint |-> get_eyes_midpoint(centres[1], centres[2],
                                                         image_size[2]),
                     roll_angle |-> get_face_roll_angle(centres[1], centres[2])]
    /\ UNCHANGED <<image, detected_faces, face_idx, normalised_face_images,
                   result, landmark_log>>

\* get_eyes_midpoint on the eye centres at columns left_x, right_x and image
\* rows left_row, right_row of an image of the given height; an eye centre
\* holds its row as the height value image_height - 1 - row.
CallGetEyesMidpoint ==
    /\ pc = "call"
    /\ pc' = "returned"
    /\ \E image_height \in Dims : \E left_x, right_x \in 0 .. MaxDim - 1 :
       \E left_row, right_row \in 0 .. image_height - 1 :
        call' = [op |-> "get_eyes_midpoint", image_height |-> image_height,
                 left_x |-> left_x, right_x |-> right_x,
                 left_row |-> left_row, right_row |-> right_row,
                 ret |-> get_eyes_midpoint(<<left_x, image_height - 1 - left_row>>,
                                           <<right_x, image_height - 1 - right_row>>,
                                           image_height)]
    /\ UNCHANGED <<image, detected_faces, face_idx, normalised_face_images,
                   result, landmark_log>>

CallGetFaceRollAngle ==
    /\ pc = "call"
    /\ pc' = "returned"
    /\ \E left_eye_centre, right_eye_centre \in PixelPoints :
        call' = [op |-> "get_face_roll_angle",
                 left_eye_centre |-> left_eye_centre,
                 right_eye_centre |-> right_eye_centre,
                 ret |-> get_face_roll_angle(left_eye_centre, right_eye_centre)]
    /\ UNCHANGED <<image, detected_faces, face_idx, normalised_face_images,
                   result, landmark_log>>

NextEyes == CallEyeGeometry \/ CallGetEyesMidpoint \/ CallGetFaceRollAngle

SpecEyes == InitCalls /\ [][NextEyes]_vars

\* Largest number of landmarks handed to rotate_landmarks.
MaxLandmarks == 5

\* Roll angles: those of a left eye at the origin and a right eye nearby.
RollAngles ==
    {get_face_roll_angle(<<0, 0>>, <<x, y>>) :
        x \in -1 .. 1, y \in (0 - MaxOut) .. MaxOut}

Pivots == {<<0, 0>>, <<MaxDim - 1, 1>>}

RotationMatrices ==
    {getRotationMatrix2D(c, Negate(a), 1) : c \in Pivots, a \in RollAngles}

FaceImages == {NewImage(h, w) : h, w \in {2, MaxDim}}

\* n landmarks, alternately at p and at the middle of the image.
LandmarkLists ==
    {[k \in 1 .. n |-> IF k % 2 = 1 THEN p ELSE [x |-> Half, y |-> Half]] :
        n \in 1 .. MaxLandmarks, p \in GridPoints}

\* The landmarks of the face edges 234, 152, 454 and 10, in that order.
EdgeLandmarkLists ==
    {<< [x |-> a, y |-> Half], [x |-> Half, y |-> b],
        [x |-> c, y |-> Half], [x |-> Half, y |-> d] >> :
        a \in {QInt(0), Half}, c \in {Half, QInt(1)}, b, d \in Grid}

CallRotateLandmarks ==
    /\ pc = "call"
    /\ pc' = "returned"
    /\ \E landmarks \in LandmarkLists : \E rotation_matrix \in RotationMatrices :
       \E img \in FaceImages :
        call' = [op |-> "rotate_landmarks", landmarks |-> landmarks,
                 rotation_matrix |-> rotation_matrix,
                 image_size |-> <<Width(img), Height(img)>>,
                 ret |-> rotate_landmarks(landmarks, rotation_matrix,
                                          <<Width(img), Height(img)>>)]
    /\ UNCHANGED <<image, detected_faces, face_idx, normalised_face_images,
                   result, landmark_log>>

CallGetNormalisedFaceImage ==
    /\ pc = "call"
    /\ pc' = "returned"
    /\ \E face_image \in FaceImages : \E face_edge_landmarks \in EdgeLandmarkLists :
       \E eyes_midpoint \in Pivots : \E roll_angle \in RollAngles :
        call' = [op |-> "get_normalised_face_image", face_image |-> face_image,
                 face_edge_landmarks |-> face_edge_landmarks,
                 eyes_midpoint |-> eyes_midpoint, roll_angle |-> roll_angle,
                 steps |-> normalise_steps(face_image, face_edge_landmarks,
                                           eyes_midpoint, roll_angle),
                 ret |-> get_normalised_face_image(face_image, face_edge_landmarks,
                                                   eyes_midpoint, roll_angle)]
    /\ UNCHANGED <<image, detected_faces, face_idx, normalised_face_images,
                   result, landmark_log>>

NextNorm == CallRotateLandmarks \/ CallGetNormalisedFaceImage

SpecNorm == InitCalls /\ [][NextNorm]_vars

-----------------------------------------------------------------------------
\* Properties of crop_faces_from_image (specification Spec).

\* C1 as stated: whenever the localizer reports no faces, its detections being
\* None or an empty list, crop_faces_from_image returns None, never an empty list.
C1_NoFacesReturnsNone ==
    (pc = "done" /\ (detected_faces = NoneValue \/ detected_faces = List(<<>>)))
        => result = NoneValue

\* C1 as amended: crop_faces_from_image returns None exactly when the
\* detections value is None; when it is an empty list the result is an empty list.
C1_NoneIffDetectionsNone ==
    pc = "done" =>
        /\ (result = NoneValue) <=> (detected_faces = NoneValue)
        /\ detected_faces = List(<<>>) => result = List(<<>>)

C1_Witness ==
    pc = "done" /\ detected_faces = List(<<>>) /\ result = List(<<>>)

\* The images of the first k faces: one per face whose landmark lookup, as
\* logged, succeeded, in the order of the faces.
RECURSIVE ExpectedImages(_, _, _, _)
ExpectedImages(img, faces, outcomes, k) ==
    IF k = 0 THEN <<>>
    ELSE IF outcomes[k] = NoneValue
    THEN ExpectedImages(img, faces, outcomes, k - 1)
    ELSE Append(ExpectedImages(img, faces, outcomes, k - 1),
                normalise_face(get_face_image(img, faces[k]), outcomes[k]))

\* C2: for a non-empty list of detected faces and any pattern of landmark
\* outcomes, every face is processed, in detection order, and the result holds
\* exactly one image per face whose lookup succeeded, in the same relative
\* order; a face whose lookup returns None adds nothing and stops nothing.
C2_OneImagePerLocatedFace ==
    /\ pc = "loop" =>
        /\ Len(landmark_log) = face_idx - 1
        /\ face_idx <= Len(detected_faces.items) + 1
        /\ normalised_face_images =
               ExpectedImages(image, detected_faces.items, landmark_log,
                              Len(landmark_log))
    /\ (pc = "done" /\ detected_faces # NoneValue /\ detected_faces # List(<<>>)) =>
        /\ Len(landmark_log) = Len(detected_faces.items)
        /\ result = List(ExpectedImages(image, detected_faces.items, landmark_log,
                                        Len(landmark_log)))

C2_Witness ==
    /\ pc = "done"
    /\ detected_faces # NoneValue
    /\ Len(landmark_log) >= 3
    /\ landmark_log[1] # NoneValue
    /\ landmark_log[2] = NoneValue
    /\ landmark_log[3] # NoneValue
    /\ detected_faces.items[1] # detected_faces.items[3]
    /\ Len(result.items) >= 2
    /\ result.items[1] # result.items[2]

-----------------------------------------------------------------------------
\* Properties of the Face Clipper and Safe Crop (specification SpecCrop).

FullImageBox ==
    [xmin |-> QInt(0), ymin |-> QInt(0), width |-> QInt(1), height |-> QInt(1)]

\* C3 as stated: get_face_image with the bounding box of the full image extent
\* returns the image unchanged, all its rows and all its columns.
C3_FullBoxReturnsImage ==
    (call.op = "get_face_image" /\ call.face_box = FullImageBox)
        => call.ret = call.image

\* A bound clamped into 0 .. size - 1.
Clamped(bound, size) == Max(0, Min(bound, size - 1))

\* C4: safe_crop_image clamps each bound on its own into 0 .. H-1 (rows) or
\* 0 .. W-1 (columns) and returns exactly the rows [top', bottom') and the
\* columns [left', right'] of the clamped bounds; top' >= bottom' gives no rows.
C4_SafeCropClampsAndSlices ==
    call.op = "safe_crop_image" =>
        LET top == Clamped(call.top, Height(call.image))
            bottom == Clamped(call.bottom, Height(call.image))
            left == Clamped(call.left, Width(call.image))
            right == Clamped(call.right, Width(call.image))
        IN  /\ call.ret.rows =
                   [k \in 1 .. Max(bottom - top, 0) |-> call.image.rows[top + k]]
            /\ call.ret.cols =
                   [k \in 1 .. Max(right - left + 1, 0) |-> call.image.cols[left + k]]
            /\ call.ret.warp = call.image.warp
            /\ top >= bottom => Height(call.ret) = 0

C4_Witness ==
    /\ call.op = "safe_crop_image"
    /\ call.top < 0
    /\ call.bottom > Height(call.image)
    /\ call.left < 0
    /\ call.right > Width(call.image)
    /\ Height(call.image) = MaxDim
    /\ Height(call.ret) = MaxDim - 1
    /\ Width(call.ret) = Width(call.image)

-----------------------------------------------------------------------------
\* Properties of the eye geometry (specification SpecEyes).

\* C5: equal y gives exactly 0 when right.x >= left.x and exactly 180 otherwise;
\* else equal x gives exactly 90 when right.y > left.y and exactly 270 otherwise;
\* the gradient is evaluated only when both x and y differ, so no division has
\* a zero divisor.
C5_RollAngleBranches ==
    call.op = "get_face_roll_angle" =>
        LET l == call.left_eye_centre
            r == call.right_eye_centre
        IN  /\ call.ret # UndefinedAngle
            /\ r[2] = l[2] =>
                   call.ret = Angle(IF r[1] >= l[1] THEN 0 ELSE 180, QInt(0))
            /\ (r[2] # l[2] /\ r[1] = l[1]) =>
                   call.ret = Angle(IF r[2] > l[2] THEN 90 ELSE 270, QInt(0))
            /\ (r[2] # l[2] /\ r[1] # l[1]) =>
                   /\ call.ret.gradient = Q(r[2] - l[2], r[1] - l[1])
                   /\ call.ret.deg = IF r[1] > l[1] THEN 0 ELSE 180
            /\ call.ret.gradient # QInt(0) => (r[2] # l[2] /\ r[1] # l[1])

C5_Witness ==
    /\ call.op = "get_face_roll_angle"
    /\ call.right_eye_centre[1] = call.left_eye_centre[1]
    /\ call.right_eye_centre[2] < call.left_eye_centre[2]
    /\ call.ret = Angle(270, QInt(0))

\* C6 as stated: for eye centres at image rows r_l and r_r, held as the height
\* values H-1-r_l and H-1-r_r, get_eyes_midpoint returns y = H - 1 -
\* round((r_l + r_r) / 2) and x = round((x_l + x_r) / 2).
C6_MidpointIsHeightUp ==
    call.op = "get_eyes_midpoint" =>
        call.ret = << Rint(Q(call.left_x + call.right_x, 2)),
                      call.image_height - 1
                          - Rint(Q(call.left_row + call.right_row, 2)) >>

\* The mean position of a list of landmarks.
MeanOf(landmarks) ==
    [x |-> QDivInt(QSum(XsOf(landmarks)), Len(landmarks)),
     y |-> QDivInt(QSum(YsOf(landmarks)), Len(landmarks))]

C7_Scenario ==
    /\ call.op = "eye_geometry"
    /\ call.image_size = <<100, 100>>
    /\ MeanOf(call.left_eye_landmarks) = [x |-> Q(3, 10), y |-> Half]
    /\ MeanOf(call.right_eye_landmarks) = [x |-> Q(7, 10), y |-> Half]

-----------------------------------------------------------------------------
\* Properties of the rotation (specification SpecNorm).

\* Rounded pixel coordinates of a landmark of an image.
PixelX(landmark, img) == Rint(QMul(landmark.x, QInt(Width(img))))

PixelY(landmark, img) == Rint(QMul(landmark.y, QInt(Height(img))))

\* C8: with roll angle 0 the rotation matrix is the identity for every pivot,
\* and the result is safe_crop_image of the unrotated face image with the
\* unrotated edge landmarks' rounded pixel coordinates as bounds.
C8_UprightFaceIsCroppedDirectly ==
    (call.op = "get_normalised_face_image" /\ call.roll_angle = Angle(0, QInt(0))) =>
        /\ call.steps.rotation_matrix = IdentityMatrix
        /\ call.ret =
               safe_crop_image(call.face_image,
                               PixelY(call.face_edge_landmarks[4], call.face_image),
                               PixelY(call.face_edge_landmarks[2], call.face_image),
                               PixelX(call.face_edge_landmarks[1], call.face_image),
                               PixelX(call.face_edge_landmarks[3], call.face_image))

C8_Witness ==
    /\ call.op = "get_normalised_face_image"
    /\ call.roll_angle = Angle(0, QInt(0))
    /\ call.eyes_midpoint # <<0, 0>>
    /\ Height(call.face_image) # Width(call.face_image)
    /\ Height(call.ret) >= 1
    /\ Width(call.ret) >= 2

\* C9 as stated: of the rotated edge landmarks, in the order [234, 152, 454, 10],
\* the y value at position 1 is passed to safe_crop_image as top and the y
\* value at position 3 as bottom; the x values at positions 0 and 2 as left
\* and right.
C9_Position1IsTop ==
    call.op = "get_normalised_face_image" =>
        /\ call.steps.top = call.steps.rotated_landmarks.rows[2][2]
        /\ call.steps.bottom = call.steps.rotated_landmarks.rows[2][4]
        /\ call.steps.left = call.steps.rotated_landmarks.rows[1][1]
        /\ call.steps.right = call.steps.rotated_landmarks.rows[1][3]

\* C9 as amended: the y value at position 3 is passed as top and the y value at
\* position 1 as bottom; the x values at positions 0 and 2 as left and right.
C9_Position3IsTop ==
    call.op = "get_normalised_face_image" =>
        /\ call.steps.top = call.steps.rotated_landmarks.rows[2][4]
        /\ call.steps.bottom = call.steps.rotated_landmarks.rows[2][2]
        /\ call.steps.left = call.steps.rotated_landmarks.rows[1][1]
        /\ call.steps.right = call.steps.rotated_landmarks.rows[1][3]
        /\ call.ret = safe_crop_image(
               warpAffine(call.face_image, call.steps.rotation_matrix,
                          <<Width(call.face_image), Height(call.face_image)>>),
               call.steps.rotated_landmarks.rows[2][4],
               call.steps.rotated_landmarks.rows[2][2],
               call.steps.rotated_landmarks.rows[1][1],
               call.steps.rotated_landmarks.rows[1][3])

C9_Witness ==
    /\ call.op = "get_normalised_face_image"
    /\ call.roll_angle.gradient # QInt(0)
    /\ call.steps.rotated_landmarks.rows[2][2] > call.steps.rotated_landmarks.rows[2][4]
    /\ call.steps.top = call.steps.rotated_landmarks.rows[2][4]
    /\ Height(call.ret) >= 1

\* C10 as stated: for every number n >= 1 of landmarks, rotate_landmarks
\* returns a 2-row, n-column integer matrix whose column i is the rounded image
\* of landmark i's pixel position under the rotation matrix.
C10_AnyNumberOfLandmarks ==
    call.op = "rotate_landmarks" =>
        /\ call.ret.kind = "ndarray"
        /\ call.ret.rows =
               [i \in 1 .. 2 |-> [k \in 1 .. Len(call.landmarks) |->
                   SRint(call.rotation_matrix.L2,
                         MatmulEntry(call.rotation_matrix, i, call.landmarks[k],
                                     call.image_size))]]

====
